---------------------------- MODULE Spec2Model ----------------------------
(***************************************************************************)
(* Planar two-link arm pipeline of assignment_3: trajectory generation by  *)
(* linear interpolation, velocity-limit filter, forward kinematics.        *)
(*                                                                         *)
(* Numbers.  The program computes in IEEE-754 binary64 (double).  The      *)
(* model keeps the structure of that arithmetic and reduces its size: a    *)
(* value is an integer count of units of 1/One, and every arithmetic       *)
(* operation returns the exact result rounded to the nearest value with    *)
(* at most MantBits significant bits, ties to even (the binary64 rule,     *)
(* with 53 replaced by MantBits).  Values below 2^MantBits units are the   *)
(* subnormal range of the format.                                          *)
(***************************************************************************)
EXTENDS Integers, Sequences, FiniteSets, TLC

VARIABLES
    start,        \* const JointState start            (main.cpp:24)
    goal,         \* const JointState goal             (main.cpp:25)
    num_samples,  \* k_num_samples                     (robot_types.hpp:85)
    vel_limit,    \* k_vel_limit                       (robot_types.hpp:84)
    link1,        \* k_link1                           (robot_types.hpp:82)
    link2,        \* k_link2                           (robot_types.hpp:83)
    traj,         \* *traj, std::vector<JointState>    (main.cpp:35)
    ee_poses,     \* *ee_poses, vector<EndEffectorPose>(main.cpp:69)
    pc,           \* the loop of main that is running
    i,            \* index of the running loop
    alpha_arg,    \* argument alpha of a call of interpolate_linear
    decimator,    \* argument decimator of print_decimated_joint_states
    visited,      \* the indices print_decimated_joint_states has printed
    robot_x_position,       \* assignment_1.cpp:7
    robot_y_position,       \* assignment_1.cpp:8
    robot_orientation_deg,  \* assignment_1.cpp:9
    user_input,             \* assignment_1.cpp:12
    arg                     \* dist or angle of this iteration as read, and
                            \* std::cin.fail(); at rest when none is read

vars == <<start, goal, num_samples, vel_limit, link1, link2,
          traj, ee_poses, pc, i, alpha_arg, decimator, visited,
          robot_x_position, robot_y_position, robot_orientation_deg,
          user_input, arg>>

\* the state of assignment_1
robot == <<robot_x_position, robot_y_position, robot_orientation_deg,
           user_input, arg>>

\* the state that main of assignment_3 does not have
not_main == <<alpha_arg, decimator, visited, robot>>

config == <<start, goal, num_samples, vel_limit, link1, link2>>

---------------------------------------------------------------------------
(* double *)

\* significand width of the format (53 in binary64)
MantBits == 6

\* the double 1.0, in units
One == 1024

Abs(x) == IF x < 0 THEN -x ELSE x

Min(a, b) == IF b < a THEN b ELSE a

Max(a, b) == IF a < b THEN b ELSE a

RECURSIVE Pow2(_)
Pow2(e) == IF e = 0 THEN 1 ELSE 2 * Pow2(e - 1)

RECURSIVE BitLen(_)
BitLen(n) == IF n = 0 THEN 0 ELSE 1 + BitLen(n \div 2)

\* nearest integer to num/den (den > 0), ties to the even integer
RoundNearestEven(num, den) ==
    LET q == num \div den
        r == num % den
    IN  IF 2 * r < den THEN q
        ELSE IF 2 * r > den THEN q + 1
        ELSE IF q % 2 = 0 THEN q ELSE q + 1

\* the rational num/den (den > 0) rounded to the nearest representable value
FRound(num, den) ==
    LET a == Abs(num) \div den
        e == Max(0, BitLen(a) - MantBits)
    IN  RoundNearestEven(num, den * Pow2(e)) * Pow2(e)

Representable(v) == FRound(v, 1) = v

FAdd(a, b) == FRound(a + b, 1)

FSub(a, b) == FRound(a - b, 1)

FMul(a, b) == FRound(a * b, One)

FDiv(a, b) == IF b > 0 THEN FRound(a * One, b) ELSE FRound((-a) * One, -b)

\* static_cast<double>(int)
IntToDouble(n) == FRound(n * One, 1)

\* position of a representable v >= 0 among the representable values
Rank(v) ==
    IF v < Pow2(MantBits) THEN v
    ELSE LET e == BitLen(v) - MantBits
         IN  Pow2(MantBits) + Pow2(MantBits - 1) * (e - 1)
               + (v \div Pow2(e)) - Pow2(MantBits - 1)

\* cos(v / One) * One, correctly rounded, for the representable
\* v in 0 .. 8191 in increasing order
CosTable ==
  <<1024, 1024, 1024, 1024, 1024, 1024, 1024, 1024, 1024, 1024, 1024, 1024,
    1024, 1024, 1024, 1024, 1024, 1024, 1024, 1024, 1024, 1024, 1024, 1024,
    1024, 1024, 1024, 1024, 1024, 1024, 1024, 1024, 1024, 1024, 1024, 1024,
    1024, 1024, 1024, 1024, 1024, 1024, 1024, 1024, 1024, 1024, 1024, 1024,
    1024, 1024, 1024, 1024, 1024, 1024, 1024, 1024, 1024, 1024, 1024, 1024,
    1024, 1024, 1024, 1024, 1024, 1024, 1024, 1024, 1024, 1024, 1024, 1024,
    1024, 1024, 1024, 1024, 1024, 1024, 1024, 1024, 1024, 1024, 1024, 1024,
    1024, 1024, 1024, 1024, 1024, 1024, 1024, 1024, 1024, 1024, 1024, 1024,
    1024, 1008, 1008, 1008, 1008, 1008, 1008, 1008, 1008, 1008, 1008, 1008,
    1008, 1008, 1008, 1008, 1008, 1008, 1008, 1008, 1008, 1008, 1008, 1008,
    992, 992, 992, 992, 992, 992, 992, 992, 992, 992, 992, 992,
    976, 976, 976, 976, 976, 976, 976, 960, 960, 960, 960, 960,
    960, 944, 944, 944, 944, 944, 928, 928, 928, 928, 928, 912,
    912, 912, 912, 896, 896, 896, 880, 880, 864, 864, 848, 832,
    832, 816, 816, 800, 784, 784, 768, 768, 752, 736, 720, 720,
    704, 688, 688, 672, 656, 640, 624, 624, 608, 592, 576, 560,
    560, 528, 496, 472, 440, 416, 384, 352, 320, 296, 264, 232,
    200, 168, 136, 104, 72, 40, 8, -24, -55, -88, -120, -152,
    -184, -212, -244, -280, -304, -336, -368, -400, -424, -480, -544, -592,
    -640, -688, -736, -784, -816, -864, -896, -928, -944, -976, -992, -1008,
    -1008, -1024, -1024, -1024, -1024, -1008, -992, -976, -960, -928, -912, -880,
    -848, -800, -768, -720, -672, -560, -456, -336, -216, -90, 39, 164,
    288, 408, 528, 624, 720, 816, 880, 944, 976, 1008, 1024, 1024,
    1008, 960, 912, 848, 768, 688, 576, 472, 352, 232, 106, -22>>

SinTable ==
  <<0, 1, 2, 3, 4, 5, 6, 7, 8, 9, 10, 11,
    12, 13, 14, 15, 16, 17, 18, 19, 20, 21, 22, 23,
    24, 25, 26, 27, 28, 29, 30, 31, 32, 33, 34, 35,
    36, 37, 38, 39, 40, 41, 42, 43, 44, 45, 46, 47,
    48, 49, 50, 51, 52, 53, 54, 55, 56, 57, 58, 59,
    60, 61, 62, 63, 64, 66, 68, 70, 72, 74, 76, 78,
    80, 82, 84, 86, 88, 90, 92, 94, 96, 98, 100, 102,
    104, 106, 108, 110, 112, 114, 116, 118, 120, 122, 124, 126,
    128, 132, 136, 140, 144, 148, 152, 156, 160, 164, 168, 172,
    176, 180, 184, 188, 192, 196, 200, 204, 208, 212, 216, 220,
    224, 228, 232, 232, 236, 240, 244, 248, 252, 264, 272, 280,
    288, 288, 296, 304, 312, 320, 328, 336, 344, 352, 360, 368,
    376, 384, 392, 400, 408, 408, 416, 424, 432, 440, 448, 456,
    464, 472, 480, 480, 488, 504, 512, 528, 544, 560, 576, 592,
    592, 608, 624, 640, 656, 656, 672, 688, 704, 704, 720, 736,
    736, 752, 768, 768, 784, 800, 800, 816, 832, 832, 848, 848,
    864, 880, 896, 912, 928, 944, 944, 960, 976, 976, 992, 992,
    1008, 1008, 1008, 1024, 1024, 1024, 1024, 1024, 1024, 1024, 1024, 1008,
    1008, 1008, 992, 992, 976, 960, 960, 944, 928, 896, 864, 832,
    800, 752, 704, 656, 608, 560, 504, 448, 392, 328, 272, 208,
    144, 80, 17, -47, -110, -176, -236, -296, -360, -416, -472, -528,
    -592, -640, -688, -736, -768, -848, -912, -960, -1008, -1024, -1024, -1008,
    -976, -944, -880, -800, -720, -624, -528, -408, -288, -160, -34, 94,
    220, 344, 464, 576, 672, 768, 848, 912, 960, 992, 1024, 1024>>

\* <cmath> cos and sin: even and odd, correctly rounded
cos(x) == CosTable[Rank(Abs(x)) + 1]

sin(x) == IF x < 0 THEN -SinTable[Rank(-x) + 1] ELSE SinTable[Rank(x) + 1]

---------------------------------------------------------------------------
(* robot_types.hpp *)

sign(x) == IF x < 0 THEN -One ELSE One

JointState(t1, t2, d1, d2) ==
    [theta1 |-> t1, theta2 |-> t2, dtheta1 |-> d1, dtheta2 |-> d2]

EndEffectorPose(px, py) == [x |-> px, y |-> py]

k_link1 == 512

k_link2 == 304

k_vel_limit == One

k_num_samples == 21

\* 1.0 / (k_num_samples - 1), for the configured number of samples
k_alpha_step == FDiv(One, IntToDouble(num_samples - 1))

M_PI == 3200

---------------------------------------------------------------------------
(* robot_control.hpp, robot_control.cpp, robot_kinematics.hpp *)

\* interpolate_linear with the velocity fields interpolated like the angles
interpolate_linear_scaled(s, g, alpha0) ==
    LET a1 == IF alpha0 < 0 THEN 0 ELSE alpha0
        alpha == IF a1 > One THEN One ELSE a1
        d_theta1 == FSub(g.theta1, s.theta1)
        d_theta2 == FSub(g.theta2, s.theta2)
    IN  JointState(FAdd(s.theta1, FMul(alpha, d_theta1)),
                   FAdd(s.theta2, FMul(alpha, d_theta2)),
                   FMul(alpha, d_theta1), FMul(alpha, d_theta2))

interpolate_linear(s, g, alpha0) ==
    LET a1 == IF alpha0 < 0 THEN 0 ELSE alpha0
        alpha == IF a1 > One THEN One ELSE a1
        d_theta1 == FSub(g.theta1, s.theta1)
        d_theta2 == FSub(g.theta2, s.theta2)
    IN  JointState(FAdd(s.theta1, FMul(alpha, d_theta1)),
                   FAdd(s.theta2, FMul(alpha, d_theta2)),
                   d_theta1, d_theta2)

\* the lambda with std::max in place of std::min
filter_max(js) ==
    JointState(js.theta1, js.theta2,
               FMul(sign(js.dtheta1), Max(Abs(js.dtheta1), Abs(vel_limit))),
               FMul(sign(js.dtheta2), Max(Abs(js.dtheta2), Abs(vel_limit))))

\* the lambda without std::abs on the velocity
filter_noabs(js) ==
    JointState(js.theta1, js.theta2,
               FMul(sign(js.dtheta1), Min(js.dtheta1, Abs(vel_limit))),
               FMul(sign(js.dtheta2), Min(js.dtheta2, Abs(vel_limit))))

\* the lambda without std::min: every velocity is set to the limit
filter_nomin(js) ==
    JointState(js.theta1, js.theta2,
               FMul(sign(js.dtheta1), Abs(vel_limit)),
               FMul(sign(js.dtheta2), Abs(vel_limit)))

\* the lambda without the two angle assignments: out{} keeps zeros
filter_nocopy(js) ==
    JointState(0, 0,
               FMul(sign(js.dtheta1), Min(Abs(js.dtheta1), Abs(vel_limit))),
               FMul(sign(js.dtheta2), Min(Abs(js.dtheta2), Abs(vel_limit))))

\* the lambda of main
filter(js) ==
    JointState(js.theta1, js.theta2,
               FMul(sign(js.dtheta1), Min(Abs(js.dtheta1), Abs(vel_limit))),
               FMul(sign(js.dtheta2), Min(Abs(js.dtheta2), Abs(vel_limit))))

\* the whole loop of apply_filter over a trajectory
apply_filter(T) == [k \in 1..Len(T) |-> filter(T[k])]

\* forward_kinematics with L1 used for both links
forward_kinematics_onelink(s, L1, L2) ==
    EndEffectorPose(
        FAdd(FMul(L1, cos(s.theta1)), FMul(L1, cos(FAdd(s.theta1, s.theta2)))),
        FAdd(FMul(L1, sin(s.theta1)), FMul(L1, sin(FAdd(s.theta1, s.theta2)))))

forward_kinematics(s, L1, L2) ==
    EndEffectorPose(
        FAdd(FMul(L1, cos(s.theta1)), FMul(L2, cos(FAdd(s.theta1, s.theta2)))),
        FAdd(FMul(L1, sin(s.theta1)), FMul(L2, sin(FAdd(s.theta1, s.theta2)))))

---------------------------------------------------------------------------
(* main.cpp *)

\* alpha of loop index k: static_cast<double>(k) * k_alpha_step
alpha_of(k) == FMul(IntToDouble(k), k_alpha_step)

\* bounds of the explored inputs
MaxSamples == 14

MaxAngleK == 2

AngleUnit == 592

\* k_num_samples = 1 does not build: 1.0 / 0 is no constant expression
NumSamplesSet == {0} \cup (2..MaxSamples)

AngleSet == {FRound(k * AngleUnit, 1) : k \in (-MaxAngleK)..MaxAngleK}

Angle2Set == {0, M_PI}

VelSet == {0, 320}

\* <<vel_limit, link1, link2>>
GeometrySet == {<<k_vel_limit, k_link1, k_link2>>,
                <<512, k_link2, k_link1>>,
                <<0, k_link1, k_link2>>,
                <<-One, 0, k_link2>>}

DefaultInit ==
    /\ start = JointState(0, 0, 0, 0)
    /\ goal = JointState(-M_PI, FDiv(-M_PI, IntToDouble(6)), 0, 0)
    /\ num_samples = k_num_samples
    /\ vel_limit = k_vel_limit
    /\ link1 = k_link1
    /\ link2 = k_link2

BoundedInit ==
    /\ \E a1 \in AngleSet, a2 \in Angle2Set,
          b1 \in AngleSet, b2 \in Angle2Set, v \in VelSet :
          /\ start = JointState(a1, a2, v, -v)
          /\ goal = JointState(b1, b2, -v, v)
    /\ num_samples \in NumSamplesSet
    /\ \E g \in GeometrySet :
          /\ vel_limit = g[1]
          /\ link1 = g[2]
          /\ link2 = g[3]

\* print_decimated_joint_states not called
PrintRest ==
    /\ decimator = 1
    /\ visited = <<>>

\* assignment_1.cpp:7-12; user_input is read before it is used
RobotRest ==
    /\ robot_x_position = 0
    /\ robot_y_position = 0
    /\ robot_orientation_deg = 0
    /\ user_input = 0
    /\ arg = [fail |-> FALSE, val |-> 0]

\* the variables of the other programs, at rest
NotMainInit ==
    /\ alpha_arg = 0
    /\ PrintRest
    /\ RobotRest

Init ==
    /\ DefaultInit \/ BoundedInit
    /\ NotMainInit
    /\ traj = <<>>
    /\ ee_poses = <<>>
    /\ pc = "generate"
    /\ i = 0

\* main.cpp:40-43, one iteration
GenerateStep ==
    /\ pc = "generate"
    /\ i < num_samples
    /\ traj' = Append(traj, interpolate_linear(start, goal, alpha_of(i)))
    /\ i' = i + 1
    /\ UNCHANGED <<config, not_main, ee_poses, pc>>

\* the loop exit with the bound off by one: i < k_num_samples - 1
GenerateDone_short ==
    /\ pc = "generate"
    /\ ~(i < num_samples - 1)
    /\ pc' = "filter"
    /\ i' = 0
    /\ UNCHANGED <<config, not_main, traj, ee_poses>>

\* main.cpp:40, loop exit; apply_filter is entered
GenerateDone ==
    /\ pc = "generate"
    /\ ~(i < num_samples)
    /\ pc' = "filter"
    /\ i' = 0
    /\ UNCHANGED <<config, not_main, traj, ee_poses>>

\* robot_control.cpp:18-21, one iteration
FilterStep ==
    /\ pc = "filter"
    /\ i < Len(traj)
    /\ traj' = [traj EXCEPT ![i + 1] = filter(traj[i + 1])]
    /\ i' = i + 1
    /\ UNCHANGED <<config, not_main, ee_poses, pc>>

\* robot_control.cpp:18, loop exit; the FK loop is entered
FilterDone ==
    /\ pc = "filter"
    /\ ~(i < Len(traj))
    /\ pc' = "fk"
    /\ i' = 0
    /\ UNCHANGED <<config, not_main, traj, ee_poses>>

\* the FK loop walking the trajectory from its last element
FKStep_reversed ==
    /\ pc = "fk"
    /\ i < Len(traj)
    /\ ee_poses' = Append(ee_poses,
                          forward_kinematics(traj[Len(traj) - i], link1, link2))
    /\ i' = i + 1
    /\ UNCHANGED <<config, not_main, traj, pc>>

\* main.cpp:74-76, one iteration
FKStep ==
    /\ pc = "fk"
    /\ i < Len(traj)
    /\ ee_poses' = Append(ee_poses,
                          forward_kinematics(traj[i + 1], link1, link2))
    /\ i' = i + 1
    /\ UNCHANGED <<config, not_main, traj, pc>>

\* main.cpp:74, loop exit
FKDone ==
    /\ pc = "fk"
    /\ ~(i < Len(traj))
    /\ pc' = "done"
    /\ UNCHANGED <<config, not_main, traj, ee_poses, i>>

Next ==
    \/ GenerateStep
    \/ GenerateDone
    \/ FilterStep
    \/ FilterDone
    \/ FKStep
    \/ FKDone

Spec == Init /\ [][Next]_vars

TypeOK ==
    /\ pc \in {"generate", "filter", "fk", "done"}
    /\ i \in 0..Max(num_samples, 0)
    /\ Len(traj) <= Max(num_samples, 0)
    /\ \A k \in 1..Len(traj) :
          /\ Representable(traj[k].theta1) /\ Representable(traj[k].theta2)
          /\ Representable(traj[k].dtheta1) /\ Representable(traj[k].dtheta2)

---------------------------------------------------------------------------
(* Properties *)

\* the generator loop has finished and no element has been filtered yet
RawComplete == pc = "filter" /\ i = 0

\* apply_filter has returned
Filtered == pc \in {"fk", "done"}

SameSign(a, b) == (a < 0 /\ b < 0) \/ (a > 0 /\ b > 0)

\* C1: for every start, goal and n >= 2 the generated trajectory has the
\* angles of start in its first element and the angles of goal in its last
\* element, exactly.
C1_EndpointsExact ==
    (num_samples >= 2 /\ pc # "generate") =>
        /\ traj[1].theta1 = start.theta1
        /\ traj[1].theta2 = start.theta2
        /\ traj[num_samples].theta1 = goal.theta1
        /\ traj[num_samples].theta2 = goal.theta2

\* C2: after apply_filter has run (limit > 0) every sample has
\* |dtheta1| <= limit and |dtheta2| <= limit, and each filter step keeps
\* the sign of a non-zero velocity.
C2_FilterClamp ==
    /\ [](vel_limit > 0 /\ Filtered =>
            \A k \in 1..Len(traj) :
                /\ Abs(traj[k].dtheta1) <= vel_limit
                /\ Abs(traj[k].dtheta2) <= vel_limit)
    /\ [][vel_limit > 0 /\ pc = "filter" /\ i < Len(traj) =>
            /\ traj[i + 1].dtheta1 # 0 =>
                  SameSign(traj'[i + 1].dtheta1, traj[i + 1].dtheta1)
            /\ traj[i + 1].dtheta2 # 0 =>
                  SameSign(traj'[i + 1].dtheta2, traj[i + 1].dtheta2)]_vars

\* C2 witness: the filter has run and clamped a negative velocity whose
\* magnitude exceeded the limit.
C2_Witness ==
    /\ Filtered /\ vel_limit > 0 /\ Len(traj) > 0
    /\ FSub(goal.theta1, start.theta1) < -vel_limit
    /\ traj[1].dtheta1 = -vel_limit

\* C3: filtering a trajectory twice with the same limit > 0 gives, element
\* by element, the trajectory obtained by filtering it once.
C3_FilterIdempotent ==
    vel_limit > 0 => apply_filter(apply_filter(traj)) = apply_filter(traj)

\* C3 witness: a complete raw trajectory that one application changes.
C3_Witness ==
    /\ RawComplete /\ vel_limit > 0 /\ Len(traj) > 0
    /\ apply_filter(traj) # traj

\* the velocity v after one filter step that found the velocity u
ClampCases(u, v) ==
    /\ Abs(u) <= vel_limit => v = u
    /\ u > vel_limit => v = vel_limit
    /\ u < -vel_limit => v = -vel_limit
    /\ u = 0 => v = 0

\* C4: each filter step (limit > 0) passes a velocity of magnitude at most
\* the limit through unchanged, turns a larger one into +limit or -limit
\* with its sign, and maps zero to zero; in the default scenario every
\* filtered sample has |dtheta1| = 1.0 and |dtheta2| = pi/6.
C4_FilterFormula ==
    /\ [][vel_limit > 0 /\ pc = "filter" /\ i < Len(traj) =>
            /\ ClampCases(traj[i + 1].dtheta1, traj'[i + 1].dtheta1)
            /\ ClampCases(traj[i + 1].dtheta2, traj'[i + 1].dtheta2)]_vars
    /\ [](DefaultInit /\ Filtered =>
            /\ Len(traj) = k_num_samples
            /\ \A k \in 1..Len(traj) :
                  /\ Abs(traj[k].dtheta1) = One
                  /\ Abs(traj[k].dtheta2) = FDiv(M_PI, IntToDouble(6)))

\* C4 witness: the default scenario after the filter, joint 1 clamped to
\* -1.0 and joint 2 left at -pi/6.
C4_Witness ==
    /\ DefaultInit /\ pc = "done"
    /\ traj[k_num_samples].dtheta1 = -One
    /\ traj[k_num_samples].dtheta2 = FDiv(-M_PI, IntToDouble(6))
    /\ Abs(traj[k_num_samples].dtheta2) < vel_limit

\* C5: no step of apply_filter changes theta1 or theta2 of any element,
\* nor the length of the trajectory.
C5_FilterKeepsAngles ==
    [][pc = "filter" =>
         /\ Len(traj') = Len(traj)
         /\ \A k \in 1..Len(traj) :
               /\ traj'[k].theta1 = traj[k].theta1
               /\ traj'[k].theta2 = traj[k].theta2]_vars

\* C5 witness: the filter has run over a trajectory with non-zero angles
\* and has changed a velocity.
C5_Witness ==
    /\ Filtered /\ Len(traj) >= 2
    /\ traj[2].theta1 # 0 /\ traj[2].theta2 # 0
    /\ traj[2].dtheta1 # FSub(goal.theta1, start.theta1)

\* C6: every sample of the raw trajectory has dtheta1 = goal.theta1 -
\* start.theta1 and dtheta2 = goal.theta2 - start.theta2, whatever its
\* index and whatever the velocity fields of start and goal.
C6_RawVelocityIsDisplacement ==
    (pc = "generate" \/ RawComplete) =>
        \A k \in 1..Len(traj) :
            /\ traj[k].dtheta1 = FSub(goal.theta1, start.theta1)
            /\ traj[k].dtheta2 = FSub(goal.theta2, start.theta2)

\* C6 witness: a complete raw trajectory of at least three samples with
\* moving angles, from a start and a goal that carry non-zero velocities.
C6_Witness ==
    /\ RawComplete /\ Len(traj) >= 3
    /\ start.dtheta1 # 0 /\ goal.dtheta1 # 0
    /\ FSub(goal.theta1, start.theta1) # 0
    /\ traj[2].theta1 # traj[1].theta1

\* C7: for n >= 2 the fraction used by the generator loop is strictly
\* increasing in the index, 0 at index 0 and 1 at index n-1.
C7_AlphaMonotone ==
    (num_samples >= 2 /\ RawComplete) =>
        /\ alpha_of(0) = 0
        /\ alpha_of(num_samples - 1) = One
        /\ \A a, b \in 0..(num_samples - 1) :
              a < b => alpha_of(a) < alpha_of(b)

InvalidConfiguration ==
    num_samples < 2 \/ link1 <= 0 \/ link2 <= 0 \/ vel_limit <= 0

\* C8: with num_samples < 2, a link length <= 0 or velocity_limit <= 0 the
\* pipeline does not execute: no sample is generated, no filter is applied
\* and no pose is computed.
C8_InvalidRejected ==
    InvalidConfiguration =>
        /\ pc = "generate"
        /\ traj = <<>>
        /\ ee_poses = <<>>

\* C9: with num_samples = 2 the generator yields exactly two elements, the
\* first with the angles of start and the second with the angles of goal.
C9_TwoSamples ==
    (num_samples = 2 /\ pc # "generate") =>
        /\ Len(traj) = 2
        /\ traj[1].theta1 = start.theta1 /\ traj[1].theta2 = start.theta2
        /\ traj[2].theta1 = goal.theta1 /\ traj[2].theta2 = goal.theta2

NormSq(p) == p.x * p.x + p.y * p.y

\* the spacing of the representable values at v
Ulp(v) == Pow2(Max(0, BitLen(Abs(v)) - MantBits))

\* rounding tolerance of the reach bounds
ReachTol == 4 * Ulp(link1 + link2)

\* C10 as stated: for L1, L2 > 0 every computed pose satisfies
\* |L1 - L2| <= sqrt(x^2 + y^2) <= L1 + L2, and theta1 = theta2 = 0 gives
\* x = L1 + L2, y = 0.
C10_ReachExact ==
    (link1 > 0 /\ link2 > 0) =>
        \A k \in 1..Len(ee_poses) :
            /\ (link1 - link2) * (link1 - link2) <= NormSq(ee_poses[k])
            /\ NormSq(ee_poses[k]) <= (link1 + link2) * (link1 + link2)
            /\ (traj[k].theta1 = 0 /\ traj[k].theta2 = 0) =>
                  ee_poses[k] = EndEffectorPose(FAdd(link1, link2), 0)

\* C10 amended: for L1, L2 > 0 every computed pose satisfies
\* |L1 - L2| - tol <= sqrt(x^2 + y^2) <= L1 + L2 + tol, with tol four units
\* in the last place of L1 + L2, and theta1 = theta2 = 0 gives exactly
\* x = L1 + L2, y = 0.
C10_ReachWithinTolerance ==
    (link1 > 0 /\ link2 > 0) =>
        \A k \in 1..Len(ee_poses) :
            LET lo == Max(0, Abs(link1 - link2) - ReachTol)
                hi == link1 + link2 + ReachTol
            IN  /\ lo * lo <= NormSq(ee_poses[k])
                /\ NormSq(ee_poses[k]) <= hi * hi
                /\ (traj[k].theta1 = 0 /\ traj[k].theta2 = 0) =>
                      ee_poses[k] = EndEffectorPose(FAdd(link1, link2), 0)

\* C10 witness: a pose of a fully stretched arm (theta2 = 0, theta1 # 0)
\* whose rounded coordinates lie outside the circle of radius L1 + L2.
C10_Witness ==
    /\ link1 > 0 /\ link2 > 0 /\ Len(ee_poses) > 0
    /\ \E k \in 1..Len(ee_poses) :
          /\ traj[k].theta2 = 0 /\ traj[k].theta1 # 0
          /\ NormSq(ee_poses[k]) > (link1 + link2) * (link1 + link2)

StageNo(p) ==
    CASE p = "generate" -> 0
      [] p = "filter" -> 1
      [] p = "fk" -> 2
      [] OTHER -> 3

\* C11: the stages run as a strict pipeline: a stage is left only when it
\* has handled all num_samples samples, the next stage is the only one
\* entered, no earlier stage is entered again, the trajectory grows only
\* in the generator and changes only in the filter after that, and poses
\* are computed only in the FK stage.
C11_StrictPipeline ==
    [][/\ StageNo(pc') >= StageNo(pc)
       /\ StageNo(pc') <= StageNo(pc) + 1
       /\ (pc = "generate" /\ pc' # "generate") => Len(traj) = num_samples
       /\ (pc = "filter" /\ pc' # "filter") =>
             /\ i = Len(traj) /\ Len(traj) = num_samples
       /\ (pc = "fk" /\ pc' # "fk") =>
             /\ i = Len(traj) /\ Len(ee_poses) = num_samples
       /\ Len(traj') # Len(traj) => pc = "generate"
       /\ (traj' # traj /\ Len(traj') = Len(traj)) =>
             /\ pc = "filter" /\ Len(traj) = num_samples
       /\ ee_poses' # ee_poses =>
             /\ pc = "fk" /\ Len(traj) = num_samples]_vars

\* C11 witness: all three stages have finished on a trajectory of several
\* samples that the filter changed.
C11_Witness ==
    /\ pc = "done" /\ num_samples >= 3
    /\ Len(traj) = num_samples /\ Len(ee_poses) = num_samples
    /\ traj[1].dtheta1 # FSub(goal.theta1, start.theta1)

\* C12: after generation the trajectory has exactly num_samples elements;
\* a filter step keeps its length and every element other than the one it
\* filters, whose angles it keeps; at the end there are as many poses as
\* trajectory elements and pose k is forward_kinematics of element k.
C12_LengthsAndOrder ==
    /\ [](pc # "generate" => Len(traj) = num_samples)
    /\ [][pc = "filter" =>
            /\ Len(traj') = Len(traj)
            /\ \A k \in 1..Len(traj) :
                  /\ k # i + 1 => traj'[k] = traj[k]
                  /\ traj'[k].theta1 = traj[k].theta1
                  /\ traj'[k].theta2 = traj[k].theta2]_vars
    /\ [](pc = "done" =>
            /\ Len(ee_poses) = Len(traj)
            /\ \A k \in 1..Len(traj) :
                  ee_poses[k] = forward_kinematics(traj[k], link1, link2))

\* C12 witness: a finished run over at least three samples whose first and
\* last poses differ.
C12_Witness ==
    /\ pc = "done" /\ Len(traj) >= 3 /\ Len(ee_poses) = Len(traj)
    /\ ee_poses[1] # ee_poses[Len(ee_poses)]

---------------------------------------------------------------------------
(* interpolate_linear called on its own, with any alpha *)

MaxAlphaK == 4

AlphaUnit == 512

AlphaSet == {FRound(k * AlphaUnit, 1) : k \in (-MaxAlphaK)..MaxAlphaK}

InterpolateInit ==
    /\ \E a1 \in AngleSet, a2 \in Angle2Set,
          b1 \in AngleSet, b2 \in Angle2Set, v \in VelSet :
          /\ start = JointState(a1, a2, v, -v)
          /\ goal = JointState(b1, b2, -v, v)
    /\ alpha_arg \in AlphaSet
    /\ num_samples = k_num_samples
    /\ vel_limit = k_vel_limit
    /\ link1 = k_link1
    /\ link2 = k_link2
    /\ traj = <<>>
    /\ ee_poses = <<>>
    /\ pc = "call"
    /\ i = 0
    /\ PrintRest
    /\ RobotRest

\* main.cpp:42 with alpha_arg for alpha
InterpolateCall ==
    /\ pc = "call"
    /\ traj' = Append(traj, interpolate_linear(start, goal, alpha_arg))
    /\ pc' = "returned"
    /\ UNCHANGED <<config, ee_poses, i, not_main>>

NextInterpolate == InterpolateCall

SpecInterpolate == InterpolateInit /\ [][NextInterpolate]_vars

Between(a, v, b) == (a <= v /\ v <= b) \/ (b <= v /\ v <= a)

\* C13: interpolate_linear returns for alpha < 0 the state it returns for
\* alpha = 0, with the angles of start, and for alpha > 1 the state it
\* returns for alpha = 1, with the angles of goal; every returned angle
\* lies between the start and the goal angle of its joint.
C13_ClampedInterpolation ==
    pc = "returned" =>
        /\ alpha_arg < 0 =>
              /\ traj[1] = interpolate_linear(start, goal, 0)
              /\ traj[1].theta1 = start.theta1
              /\ traj[1].theta2 = start.theta2
        /\ alpha_arg > One =>
              /\ traj[1] = interpolate_linear(start, goal, One)
              /\ traj[1].theta1 = goal.theta1
              /\ traj[1].theta2 = goal.theta2
        /\ Between(start.theta1, traj[1].theta1, goal.theta1)
        /\ Between(start.theta2, traj[1].theta2, goal.theta2)

---------------------------------------------------------------------------
(* print_decimated_joint_states, robot_types.cpp *)

MaxDecimator == 6

\* the trajectory after the generator loop, main.cpp:40-43
generated == [k \in 1..num_samples |->
                 interpolate_linear(start, goal, alpha_of(k - 1))]

\* the calls of main.cpp:48 (raw trajectory) and main.cpp:66 (filtered),
\* with any decimator from 1 (the default argument) on
PrintInit ==
    /\ \E a1 \in AngleSet, b1 \in AngleSet :
          /\ start = JointState(a1, 0, 0, 0)
          /\ goal = JointState(b1, 0, 0, 0)
    /\ num_samples \in NumSamplesSet
    /\ vel_limit = k_vel_limit
    /\ link1 = k_link1
    /\ link2 = k_link2
    /\ traj \in {generated, apply_filter(generated)}
    /\ decimator \in 1..MaxDecimator
    /\ visited = <<>>
    /\ ee_poses = <<>>
    /\ pc = "print"
    /\ i = 0
    /\ alpha_arg = 0
    /\ RobotRest

\* the loop body with ++i for i += decimator
PrintStep_unit ==
    /\ pc = "print"
    /\ i < Len(traj)
    /\ visited' = Append(visited, i)
    /\ i' = i + 1
    /\ UNCHANGED <<config, traj, ee_poses, pc, alpha_arg, decimator, robot>>

\* robot_types.cpp:20-23, one iteration; i is a size_t and stays far
\* below its width
PrintStep ==
    /\ pc = "print"
    /\ i < Len(traj)
    /\ visited' = Append(visited, i)
    /\ i' = i + decimator
    /\ UNCHANGED <<config, traj, ee_poses, pc, alpha_arg, decimator, robot>>

\* robot_types.cpp:20, loop exit, and the return
PrintDone ==
    /\ pc = "print"
    /\ ~(i < Len(traj))
    /\ pc' = "printed"
    /\ UNCHANGED <<config, traj, ee_poses, i, alpha_arg, decimator, visited,
                   robot>>

NextPrint ==
    \/ PrintStep
    \/ PrintDone

\* the program is sequential: a loop that can step does step
SpecPrint == PrintInit /\ [][NextPrint]_vars /\ WF_vars(NextPrint)

\* the multiples of decimator below the length of the trajectory
ExpectedVisits ==
    [k \in 1..((Len(traj) + decimator - 1) \div decimator) |->
        (k - 1) * decimator]

\* C14: for every trajectory and every decimator d >= 1 the function
\* returns, has then visited exactly the indices 0, d, 2d, ... below the
\* length of the trajectory, in increasing order, reads only valid
\* indices on the way, and never changes the trajectory.
C14_PrintDecimated ==
    /\ <>(pc = "printed")
    /\ [](pc = "printed" => visited = ExpectedVisits)
    /\ [](\A k \in 1..Len(visited) :
            /\ visited[k] < Len(traj)
            /\ k > 1 => visited[k - 1] < visited[k])
    /\ [][traj' = traj]_vars

\* C14 witness: the call of main, decimator 5, has returned from a
\* trajectory of more than ten samples after printing 0, 5 and 10.
C14_Witness ==
    /\ pc = "printed" /\ decimator = 5
    /\ Len(traj) > 10
    /\ visited = <<0, 5, 10>>

---------------------------------------------------------------------------
(* assignment_1.cpp: the pose simulator *)

\* constexpr float PI{3.14159}, as a double
PI == FRound(3217, 1)

\* the double 360.0
Deg360 == 360 * One

\* std::fmod: exact, with the sign of v
fmod(v, m) == IF v < 0 THEN -((-v) % m) ELSE v % m

\* what std::cin >> n leaves: the value read, or failure with n = 0
Read(v) == [fail |-> FALSE, val |-> v]

ReadFailed == [fail |-> TRUE, val |-> 0]

\* bounds of the explored inputs
MaxMenu == 6

MaxArgK == 2

ArgUnit == 184320

\* 256 full turns: an angle at which adding 360.0 no longer changes the sum
BigArg == 92160 * One

\* moves are explored from positions within MaxPos of the origin
MaxPos == 50

MenuInputs == {ReadFailed} \cup {Read(n) : n \in (-1)..MaxMenu}

ArgInputs ==
    {ReadFailed} \cup {Read(FRound(k * ArgUnit, 1)) : k \in (-1)..MaxArgK}
                 \cup {Read(BigArg)}

pose == <<robot_x_position, robot_y_position, robot_orientation_deg>>

main_state == <<config, traj, ee_poses, i, alpha_arg, decimator, visited>>

RobotInit ==
    /\ RobotRest
    /\ pc = "menu"
    /\ start = JointState(0, 0, 0, 0)
    /\ goal = JointState(0, 0, 0, 0)
    /\ num_samples = k_num_samples
    /\ vel_limit = k_vel_limit
    /\ link1 = k_link1
    /\ link2 = k_link2
    /\ traj = <<>>
    /\ ee_poses = <<>>
    /\ i = 0
    /\ alpha_arg = 0
    /\ PrintRest

\* assignment_1.cpp:25-36 and a switch that matches no case
MenuInvalid ==
    /\ pc = "menu"
    /\ \E m \in MenuInputs :
          /\ m.fail \/ m.val < 1 \/ m.val > 5
          /\ user_input' = m.val
    /\ arg' = Read(0)
    /\ UNCHANGED <<pose, pc, main_state>>

\* assignment_1.cpp:44-62
MoveForward ==
    /\ pc = "menu"
    /\ user_input' = 1
    /\ \E a \in ArgInputs :
          /\ arg' = a
          /\ IF a.fail \/ a.val < 0
             THEN UNCHANGED pose
             ELSE LET rad == FMul(robot_orientation_deg,
                                  FDiv(PI, IntToDouble(180)))
                  IN  /\ a.val < BigArg
                      /\ Abs(robot_x_position) <= MaxPos * One
                      /\ Abs(robot_y_position) <= MaxPos * One
                      /\ robot_x_position' =
                            FAdd(robot_x_position, FMul(a.val, cos(rad)))
                      /\ robot_y_position' =
                            FAdd(robot_y_position, FMul(a.val, sin(rad)))
                      /\ UNCHANGED robot_orientation_deg
    /\ UNCHANGED <<pc, main_state>>

\* assignment_1.cpp:64-81
TurnLeft ==
    /\ pc = "menu"
    /\ user_input' = 2
    /\ \E a \in ArgInputs :
          /\ arg' = a
          /\ IF a.fail \/ a.val < 0
             THEN UNCHANGED robot_orientation_deg
             ELSE robot_orientation_deg' =
                      fmod(FAdd(robot_orientation_deg, a.val), Deg360)
    /\ UNCHANGED <<robot_x_position, robot_y_position, pc, main_state>>

\* assignment_1.cpp:83-96: the argument is read and subtracted
TurnRight ==
    /\ pc = "menu"
    /\ user_input' = 3
    /\ \E a \in ArgInputs :
          /\ arg' = a
          /\ IF a.fail \/ a.val < 0
             THEN UNCHANGED <<robot_orientation_deg, pc>>
             ELSE /\ robot_orientation_deg' =
                         FSub(robot_orientation_deg, a.val)
                  /\ pc' = "turn_right"
    /\ UNCHANGED <<robot_x_position, robot_y_position, main_state>>

\* assignment_1.cpp:97-99, one iteration of the while loop
TurnRightWhile ==
    /\ pc = "turn_right"
    /\ robot_orientation_deg < 0
    /\ robot_orientation_deg' = FAdd(robot_orientation_deg, Deg360)
    /\ UNCHANGED <<robot_x_position, robot_y_position, user_input, arg, pc,
                   main_state>>

\* assignment_1.cpp:97-103, after the while loop
TurnRightDone ==
    /\ pc = "turn_right"
    /\ ~(robot_orientation_deg < 0)
    /\ robot_orientation_deg' = fmod(robot_orientation_deg, Deg360)
    /\ pc' = "menu"
    /\ UNCHANGED <<robot_x_position, robot_y_position, user_input, arg,
                   main_state>>

\* assignment_1.cpp:105-107
Status ==
    /\ pc = "menu"
    /\ user_input' = 4
    /\ arg' = Read(0)
    /\ UNCHANGED <<pose, pc, main_state>>

\* assignment_1.cpp:108-110
Exit ==
    /\ pc = "menu"
    /\ user_input' = 5
    /\ pc' = "exited"
    /\ arg' = Read(0)
    /\ UNCHANGED <<pose, main_state>>

NextRobot ==
    \/ MenuInvalid
    \/ MoveForward
    \/ TurnLeft
    \/ TurnRight
    \/ TurnRightWhile
    \/ TurnRightDone
    \/ Status
    \/ Exit

SpecRobot == RobotInit /\ [][NextRobot]_vars

\* the input of the step just taken was refused: no valid menu option, or
\* an argument that failed to parse or is negative
Refused ==
    \/ user_input \notin 1..5
    \/ user_input \in 1..3 /\ (arg.fail \/ arg.val < 0)

\* the orientation as the claim bounds it
InRange == 0 <= robot_orientation_deg /\ robot_orientation_deg < Deg360

\* inside the wrap loop of turn right with the orientation still rising:
\* the only place where a stored orientation outside [0, 360) is transient
Wrapping ==
    /\ pc = "turn_right"
    /\ FAdd(robot_orientation_deg, Deg360) > robot_orientation_deg

\* what holds between operations: the orientation is in range at every menu
\* prompt and after exit, an iteration whose input is refused leaves x, y
\* and the orientation unchanged, and the loop is left only by option 5
MenuBoundarySafety ==
    /\ [](pc \in {"menu", "exited"} => InRange)
    /\ [][(pc = "menu" /\ Refused') => pose' = pose]_vars
    /\ [][(pc # "exited" /\ pc' = "exited") =>
            /\ pc = "menu" /\ user_input' = 5]_vars

\* C15: after any sequence of menu operations the stored orientation stays
\* in [0, 360) degrees (outside it only while the wrap loop of turn right
\* is still raising it); an iteration whose input is refused leaves x, y
\* and the orientation unchanged; and the loop ends only on option 5.
C15_PoseSimulator ==
    /\ [](InRange \/ Wrapping)
    /\ MenuBoundarySafety

===========================================================================
